---- MODULE Spec2Model ----
(***************************************************************************)
(* Model of the occupancy section of src/ulmaniai:                         *)
(*   occupancyUtils.ts       autoSetUsageStatus, the row derivation        *)
(*   useOccupancySection.ts  the hook holding status and the InfoRecord    *)
(*                                                                         *)
(* JavaScript strings that the code inspects character by character (raw   *)
(* input, digit strings, row ids) are sequences of one-character strings;  *)
(* usage labels, which the code only compares for equality, are TLA+       *)
(* strings.  The Korean literals of the source are written in ASCII:       *)
(*   '임대' "rented", '공실' "vacant", '거주 중' "occupied",                 *)
(*   '직접사용' "directly-used", '거주' "owner-occupied".                    *)
(* A LeaseRow is a record; the optional businessRegistration field is      *)
(* present in the record's domain exactly when the object has the key.     *)
(***************************************************************************)
EXTENDS Integers, Sequences, FiniteSets, TLC

VARIABLES
    type,       \* props.type: "residential" or "commercial"
    status,     \* useState: the active OccupancyStatus
    info,       \* useState: the InfoRecord, status -> SectionInfo
    threw,      \* TRUE iff the last handler call ended in a TypeError
    trip,       \* history: progress of a status switch away and back
    steps,      \* number of handler calls so far
    lastCount,  \* history: the raw value of the last count change, if it was one
    dIn,        \* arguments of a direct call of autoSetUsageStatus
    dOut,       \* its result
    dLow,       \* the lower tenant count of a lower-then-raise sequence, or -1
    dpc         \* "ready" before the direct call, "done" after it

vars == <<type, status, info, threw, trip, steps, lastCount, dIn, dOut, dLow, dpc>>
hookVars == <<type, status, info, threw, trip, steps, lastCount>>
deriveVars == <<dIn, dOut, dLow, dpc>>

----------------------------------------------------------------------------
(* Bounds *)

MaxCount == 2       \* largest numeric value of a count
MaxSteps == 4       \* handler calls in one behaviour of the hook
MaxExisting == 2    \* longest existingRows of a direct call

----------------------------------------------------------------------------
(* Strings *)

Digits == {"0", "1", "2", "3", "4", "5", "6", "7", "8", "9"}

DigitVal(c) ==
    CASE c = "0" -> 0 [] c = "1" -> 1 [] c = "2" -> 2 [] c = "3" -> 3
      [] c = "4" -> 4 [] c = "5" -> 5 [] c = "6" -> 6 [] c = "7" -> 7
      [] c = "8" -> 8 [] c = "9" -> 9

DigitChar(d) ==
    CASE d = 0 -> "0" [] d = 1 -> "1" [] d = 2 -> "2" [] d = 3 -> "3"
      [] d = 4 -> "4" [] d = 5 -> "5" [] d = 6 -> "6" [] d = 7 -> "7"
      [] d = 8 -> "8" [] d = 9 -> "9"

\* value.replace(/[^0-9]/g, '')
IsDigit(c) == c \in Digits

OnlyNumbers(value) == SelectSeq(value, IsDigit)

\* Number(s) || 0 for a string of digits: its decimal value, 0 when empty
RECURSIVE NumberOr0(_)
NumberOr0(s) ==
    IF s = <<>> THEN 0
    ELSE 10 * NumberOr0(SubSeq(s, 1, Len(s) - 1)) + DigitVal(s[Len(s)])

\* String(n) for a positive integer
RECURSIVE String(_)
String(n) ==
    IF n < 10 THEN <<DigitChar(n)>>
    ELSE String(n \div 10) \o <<DigitChar(n % 10)>>

Max2(a, b) == IF a >= b THEN a ELSE b
Max3(a, b, c) == Max2(Max2(a, b), c)

----------------------------------------------------------------------------
(* occupancyUtils.ts *)

OccupancyStatus == {"residence", "rent", "both", "self-use"}

USAGE_RENTED == "rented"
USAGE_VACANT == "vacant"
USAGE_RESIDING == "occupied"
USAGE_DIRECT == "directly-used"
USAGE_OWNER == "owner-occupied"

HasBR(r) == "businessRegistration" \in DOMAIN r

\* { id, usage, deposit, rent }
Row(id, usage, deposit, rent) ==
    [id |-> id, usage |-> usage, deposit |-> deposit, rent |-> rent]

\* { id, usage, deposit, rent, businessRegistration }
RowBR(id, usage, deposit, rent, br) ==
    [id |-> id, usage |-> usage, deposit |-> deposit, rent |-> rent,
     businessRegistration |-> br]

\* existingRows[i] with a 0-based i: defined iff i < existingRows.length
Exists(existingRows, i) == i + 1 <= Len(existingRows)

\* mutant: the deposit read one row further down
ExistingDeposit_nextRow(existingRows, i) ==
    IF Exists(existingRows, i + 1) THEN existingRows[i + 2].deposit ELSE <<>>

\* existingRow?.deposit || ''
ExistingDeposit(existingRows, i) ==
    IF Exists(existingRows, i) THEN existingRows[i + 1].deposit ELSE <<>>

\* existingRow?.rent || ''
ExistingRent(existingRows, i) ==
    IF Exists(existingRows, i) THEN existingRows[i + 1].rent ELSE <<>>

\* existingRow?.businessRegistration || ''
ExistingBR(existingRows, i) ==
    IF Exists(existingRows, i) /\ HasBR(existingRows[i + 1])
    THEN existingRows[i + 1].businessRegistration ELSE <<>>

\* the row pushed for every unit of 'residence' / 'self-use', and the last
\* row of 'both'
OwnerRow(id, usage, isCommercial) ==
    IF isCommercial THEN RowBR(id, usage, <<>>, <<>>, <<>>)
    ELSE Row(id, usage, <<>>, <<>>)

\* mutant: the comparison off by one
RentUsage_offByOne(i, tenantCount) ==
    IF i <= tenantCount THEN USAGE_RENTED ELSE USAGE_VACANT

\* i < tenantCount ? '임대' : '공실'
RentUsage(i, tenantCount) ==
    IF i < tenantCount THEN USAGE_RENTED ELSE USAGE_VACANT

\* mutant: the existing deposit and rent kept whatever the usage
RentRow_keepsVacant(i, tenantCount, existingRows) ==
    Row(String(i + 1), RentUsage(i, tenantCount),
        ExistingDeposit(existingRows, i), ExistingRent(existingRows, i))

\* the row pushed by the loop of the 'rent' branch at 0-based index i
RentRow(i, tenantCount, existingRows) ==
    LET usage == RentUsage(i, tenantCount)
    IN  Row(String(i + 1), usage,
            IF usage = USAGE_RENTED THEN ExistingDeposit(existingRows, i) ELSE <<>>,
            IF usage = USAGE_RENTED THEN ExistingRent(existingRows, i) ELSE <<>>)

\* the row pushed by the first loop of the 'both' branch at 0-based index i
BothRentRow(i, tenantCount, existingRows, isCommercial) ==
    LET usage == RentUsage(i, tenantCount)
        deposit == IF usage = USAGE_RENTED THEN ExistingDeposit(existingRows, i) ELSE <<>>
        rent == IF usage = USAGE_RENTED THEN ExistingRent(existingRows, i) ELSE <<>>
    IN  IF isCommercial
        THEN RowBR(String(i + 1), usage, deposit, rent, ExistingBR(existingRows, i))
        ELSE Row(String(i + 1), usage, deposit, rent)

\* mutant: the row count without its floor of 1
ResidenceRows_noFloor(totalCount, tenantCount, isCommercial) ==
    LET rowCount == Max2(totalCount, tenantCount)
        usage == IF isCommercial THEN USAGE_DIRECT ELSE USAGE_RESIDING
    IN  [i \in 1..rowCount |-> OwnerRow(String(i), usage, isCommercial)]

\* branch status === 'residence' || status === 'self-use'
ResidenceRows(totalCount, tenantCount, isCommercial) ==
    LET rowCount == Max3(totalCount, tenantCount, 1)
        usage == IF isCommercial THEN USAGE_DIRECT ELSE USAGE_RESIDING
    IN  [i \in 1..rowCount |-> OwnerRow(String(i), usage, isCommercial)]

\* mutant: ids numbered from 0
RentRows_zeroBasedIds(totalCount, tenantCount, existingRows) ==
    LET rowCount == Max3(totalCount, tenantCount, 1)
    IN  [i \in 1..rowCount |->
            [RentRow(i - 1, tenantCount, existingRows) EXCEPT !.id = String(i - 1)]]

\* branch status === 'rent'
RentRows(totalCount, tenantCount, existingRows) ==
    LET rowCount == Max3(totalCount, tenantCount, 1)
    IN  [i \in 1..rowCount |-> RentRow(i - 1, tenantCount, existingRows)]

\* mutant: no unit set aside for the owner
BothRows_noReserve(totalCount, tenantCount, existingRows, isCommercial) ==
    LET rentCount == Max2(totalCount, tenantCount)
    IN  [i \in 1..rentCount |->
            BothRentRow(i - 1, tenantCount, existingRows, isCommercial)]
        \o <<OwnerRow(String(rentCount + 1),
                      IF isCommercial THEN USAGE_DIRECT ELSE USAGE_OWNER,
                      isCommercial)>>

\* branch status === 'both'
BothRows(totalCount, tenantCount, existingRows, isCommercial) ==
    LET availableCount == totalCount - 1
        rentCount == Max2(availableCount, tenantCount)
    IN  [i \in 1..rentCount |->
            BothRentRow(i - 1, tenantCount, existingRows, isCommercial)]
        \o <<OwnerRow(String(rentCount + 1),
                      IF isCommercial THEN USAGE_DIRECT ELSE USAGE_OWNER,
                      isCommercial)>>

autoSetUsageStatus(totalCount, tenantCount, existingRows, st, isCommercial) ==
    CASE st \in {"residence", "self-use"} ->
            ResidenceRows(totalCount, tenantCount, isCommercial)
      [] st = "rent" ->
            RentRows(totalCount, tenantCount, existingRows)
      [] st = "both" ->
            BothRows(totalCount, tenantCount, existingRows, isCommercial)
      [] OTHER -> existingRows

----------------------------------------------------------------------------
(* useOccupancySection.ts *)

SectionTypes == {"residential", "commercial"}

\* mutant: the two branches of the conditional swapped
Statuses_swapped(t) ==
    IF t = "commercial" THEN {"residence", "rent", "both"}
    ELSE {"self-use", "rent", "both"}

\* the statuses createInitialInfoState gives an entry to
Statuses(t) ==
    IF t = "commercial" THEN {"self-use", "rent", "both"}
    ELSE {"residence", "rent", "both"}

createInitialInfoState(t) ==
    [s \in Statuses(t) |->
        [totalCount |-> <<"1">>,
         tenantCount |-> <<"0">>,
         leaseRows |-> <<Row(<<"1">>, s, <<>>, <<>>)>>]]

isCommercial == type = "commercial"

\* info[newStatus] is undefined for a status without an entry, and reading
\* currentInfo.totalCount then raises a TypeError before any state is set
StatusChangeThrows(cInfo, newStatus) == newStatus \notin DOMAIN cInfo

\* mutant: the counts read from the entry of the active status
StatusChangeRows_activeCounts(cInfo, newStatus) ==
    autoSetUsageStatus(Max2(NumberOr0(cInfo[status].totalCount), 1),
                       NumberOr0(cInfo[status].tenantCount),
                       cInfo[newStatus].leaseRows, newStatus, isCommercial)

\* the rows handleStatusChange computes from the rendered snapshot cInfo
StatusChangeRows(cInfo, newStatus) ==
    LET currentInfo == cInfo[newStatus]
    IN  autoSetUsageStatus(Max2(NumberOr0(currentInfo.totalCount), 1),
                           NumberOr0(currentInfo.tenantCount),
                           currentInfo.leaseRows, newStatus, isCommercial)

\* the updater handleStatusChange passes to setInfo, applied to prev
StatusChangeInfo(cInfo, prev, newStatus) ==
    [prev EXCEPT ![newStatus] =
        [prev[newStatus] EXCEPT !.leaseRows = StatusChangeRows(cInfo, newStatus)]]

\* mutant: the total count stored under every status
TotalCountChangeInfo_allKeys(cInfo, cStatus, prev, value) ==
    LET onlyNumbers == OnlyNumbers(value)
        newRows == autoSetUsageStatus(Max2(NumberOr0(onlyNumbers), 1),
                                      NumberOr0(cInfo[cStatus].tenantCount),
                                      cInfo[cStatus].leaseRows, cStatus, isCommercial)
    IN  [k \in DOMAIN prev |->
            IF k = cStatus
            THEN [prev[k] EXCEPT !.totalCount = onlyNumbers, !.leaseRows = newRows]
            ELSE [prev[k] EXCEPT !.totalCount = onlyNumbers]]

\* the updater of handleTotalCountChange
TotalCountChangeInfo(cInfo, cStatus, prev, value) ==
    LET onlyNumbers == OnlyNumbers(value)
        newRowCount == Max2(NumberOr0(onlyNumbers), 1)
        currentInfo == cInfo[cStatus]
        newRows == autoSetUsageStatus(newRowCount,
                                      NumberOr0(currentInfo.tenantCount),
                                      currentInfo.leaseRows, cStatus, isCommercial)
    IN  [prev EXCEPT ![cStatus] =
            [prev[cStatus] EXCEPT !.totalCount = onlyNumbers,
                                  !.leaseRows = newRows]]

\* mutant: only the empty string is reset
TotalCountBlurApplies_emptyOnly(cInfo, cStatus) ==
    cInfo[cStatus].totalCount = <<>>

\* !currentInfo.totalCount || num < 1
TotalCountBlurApplies(cInfo, cStatus) ==
    LET currentInfo == cInfo[cStatus]
    IN  currentInfo.totalCount = <<>> \/ NumberOr0(currentInfo.totalCount) < 1

\* mutant: the blur resets the count whatever it holds
TotalCountBlurInfo_always(cInfo, cStatus, prev) ==
    [prev EXCEPT ![cStatus] = [prev[cStatus] EXCEPT !.totalCount = <<"1">>]]

\* handleTotalCountBlur
TotalCountBlurInfo(cInfo, cStatus, prev) ==
    IF TotalCountBlurApplies(cInfo, cStatus)
    THEN [prev EXCEPT ![cStatus] = [prev[cStatus] EXCEPT !.totalCount = <<"1">>]]
    ELSE prev

\* mutant: the count stored without deriving the rows again
TenantCountChangeInfo_keepsRows(cInfo, cStatus, prev, value) ==
    [prev EXCEPT ![cStatus] =
        [prev[cStatus] EXCEPT !.tenantCount = OnlyNumbers(value)]]

\* the updater of handleTenantCountChange
TenantCountChangeInfo(cInfo, cStatus, prev, value) ==
    LET onlyNumbers == OnlyNumbers(value)
        newTenantCount == NumberOr0(onlyNumbers)
        currentInfo == cInfo[cStatus]
        newRows == autoSetUsageStatus(NumberOr0(currentInfo.totalCount),
                                      newTenantCount,
                                      currentInfo.leaseRows, cStatus, isCommercial)
    IN  [prev EXCEPT ![cStatus] =
            [prev[cStatus] EXCEPT !.tenantCount = onlyNumbers,
                                  !.leaseRows = newRows]]

\* mutant: the blur resets the count whatever it holds
TenantCountBlurInfo_always(cInfo, cStatus, prev) ==
    [prev EXCEPT ![cStatus] = [prev[cStatus] EXCEPT !.tenantCount = <<"0">>]]

\* handleTenantCountBlur
TenantCountBlurInfo(cInfo, cStatus, prev) ==
    IF cInfo[cStatus].tenantCount = <<>>
    THEN [prev EXCEPT ![cStatus] = [prev[cStatus] EXCEPT !.tenantCount = <<"0">>]]
    ELSE prev

\* { ...prev, [status]: { ...prev[status], leaseRows: newRows } }
StoreRows(cStatus, prev, newRows) ==
    [prev EXCEPT ![cStatus] = [prev[cStatus] EXCEPT !.leaseRows = newRows]]

\* mutant: deposit and rent kept whatever the new usage
UsageChangedRow_keepsFinancials(r, newUsage) ==
    [r EXCEPT !.usage = newUsage]

\* { ...r, usage: newUsage, deposit: ..., rent: ... }
UsageChangedRow(r, newUsage) ==
    [r EXCEPT !.usage = newUsage,
              !.deposit = IF newUsage = USAGE_RENTED THEN r.deposit ELSE <<>>,
              !.rent = IF newUsage = USAGE_RENTED THEN r.rent ELSE <<>>]

\* the updater of handleRowUsageChange
RowUsageChangeInfo(cStatus, prev, rowId, newUsage) ==
    LET rows == prev[cStatus].leaseRows
    IN  StoreRows(cStatus, prev,
            [i \in 1..Len(rows) |->
                IF rows[i].id = rowId THEN UsageChangedRow(rows[i], newUsage)
                ELSE rows[i]])

\* the updater of handleRowDepositChange
RowDepositChangeInfo(cStatus, prev, rowId, value) ==
    LET onlyNumbers == OnlyNumbers(value)
        rows == prev[cStatus].leaseRows
    IN  StoreRows(cStatus, prev,
            [i \in 1..Len(rows) |->
                IF rows[i].id = rowId THEN [rows[i] EXCEPT !.deposit = onlyNumbers]
                ELSE rows[i]])

\* the updater of handleRowRentChange
RowRentChangeInfo(cStatus, prev, rowId, value) ==
    LET onlyNumbers == OnlyNumbers(value)
        rows == prev[cStatus].leaseRows
    IN  StoreRows(cStatus, prev,
            [i \in 1..Len(rows) |->
                IF rows[i].id = rowId THEN [rows[i] EXCEPT !.rent = onlyNumbers]
                ELSE rows[i]])

\* { ...r, businessRegistration: value }: sets the key, adding it if absent
WithBR(r, value) == RowBR(r.id, r.usage, r.deposit, r.rent, value)

\* the updater of handleRowBusinessRegistrationChange
RowBusinessRegistrationChangeInfo(cStatus, prev, rowId, value) ==
    LET rows == prev[cStatus].leaseRows
    IN  StoreRows(cStatus, prev,
            [i \in 1..Len(rows) |->
                IF rows[i].id = rowId THEN WithBR(rows[i], value) ELSE rows[i]])

----------------------------------------------------------------------------
(* Inputs the rendering layer hands to the handlers *)

\* raw text of a count field: nothing, a letter, a count, a count mixed with
\* letters, and a count with a leading zero
CountValues ==
    {<<>>, <<"x">>}
    \cup {String(n) : n \in 0..MaxCount}
    \cup {<<"x">> \o String(n) \o <<"x">> : n \in 0..MaxCount}
    \cup {<<"0">> \o String(MaxCount)}

RowIds == {String(n) : n \in 1..MaxCount}
UsageValues == {USAGE_RENTED, USAGE_VACANT}
DepositValues == {<<>>, <<"5", "x">>}
RentValues == {<<>>, <<"x", "7">>}
BRValues == {<<"Y">>}

NoTrip == [phase |-> 0, from |-> "none",
           saved |-> [totalCount |-> <<>>, tenantCount |-> <<>>, leaseRows |-> <<>>]]

\* a switch away from the active status starts a trip, the switch straight
\* back to it completes the trip
TripAfterStatusChange(newStatus) ==
    IF trip.phase = 1 /\ newStatus = trip.from /\ newStatus # status
    THEN [trip EXCEPT !.phase = 2]
    ELSE IF newStatus # status
    THEN [phase |-> 1, from |-> status, saved |-> info[status]]
    ELSE NoTrip

NoLast == [op |-> "other", value |-> <<>>]

\* a blur right after the change of the same count commits that change
Committed(changeOp, commitOp) ==
    IF lastCount.op = changeOp
    THEN [op |-> commitOp, value |-> lastCount.value]
    ELSE NoLast

----------------------------------------------------------------------------
(* The handlers, each called on the snapshot of the latest render *)

Called == /\ steps < MaxSteps
          /\ steps' = steps + 1
          /\ UNCHANGED <<type, deriveVars>>

handleStatusChange(newStatus) ==
    /\ Called
    /\ lastCount' = NoLast
    /\ IF StatusChangeThrows(info, newStatus)
       THEN /\ threw' = TRUE
            /\ trip' = NoTrip
            /\ UNCHANGED <<status, info>>
       ELSE /\ threw' = FALSE
            /\ status' = newStatus
            /\ info' = StatusChangeInfo(info, info, newStatus)
            /\ trip' = TripAfterStatusChange(newStatus)

\* setInfo(updater) of a handler that returns normally
SetInfo(newInfo) ==
    /\ info' = newInfo
    /\ threw' = FALSE
    /\ trip' = NoTrip
    /\ UNCHANGED status

handleTotalCountChange(value) ==
    /\ Called
    /\ lastCount' = [op |-> "total", value |-> value]
    /\ SetInfo(TotalCountChangeInfo(info, status, info, value))

handleTotalCountBlur ==
    /\ Called
    /\ lastCount' = Committed("total", "totalCommitted")
    /\ SetInfo(TotalCountBlurInfo(info, status, info))

handleTenantCountChange(value) ==
    /\ Called
    /\ lastCount' = [op |-> "tenant", value |-> value]
    /\ SetInfo(TenantCountChangeInfo(info, status, info, value))

handleTenantCountBlur ==
    /\ Called
    /\ lastCount' = Committed("tenant", "tenantCommitted")
    /\ SetInfo(TenantCountBlurInfo(info, status, info))

handleRowUsageChange(rowId, newUsage) ==
    /\ Called
    /\ lastCount' = NoLast
    /\ SetInfo(RowUsageChangeInfo(status, info, rowId, newUsage))

handleRowDepositChange(rowId, value) ==
    /\ Called
    /\ lastCount' = NoLast
    /\ SetInfo(RowDepositChangeInfo(status, info, rowId, value))

handleRowRentChange(rowId, value) ==
    /\ Called
    /\ lastCount' = NoLast
    /\ SetInfo(RowRentChangeInfo(status, info, rowId, value))

handleRowBusinessRegistrationChange(rowId, value) ==
    /\ Called
    /\ lastCount' = NoLast
    /\ SetInfo(RowBusinessRegistrationChangeInfo(status, info, rowId, value))

NoDirectCall == [totalCount |-> 0, tenantCount |-> 0, existingRows |-> <<>>,
                 status |-> "rent", isCommercial |-> FALSE]

\* useOccupancySection({ type, initialStatus }) with a status of the type
Init ==
    /\ type \in SectionTypes
    /\ status \in Statuses(type)
    /\ info = createInitialInfoState(type)
    /\ threw = FALSE
    /\ trip = NoTrip
    /\ steps = 0
    /\ lastCount = NoLast
    /\ dIn = NoDirectCall
    /\ dOut = <<>>
    /\ dLow = -1
    /\ dpc = "idle"

Next ==
    \/ \E newStatus \in OccupancyStatus : handleStatusChange(newStatus)
    \/ \E value \in CountValues : handleTotalCountChange(value)
    \/ handleTotalCountBlur
    \/ \E value \in CountValues : handleTenantCountChange(value)
    \/ handleTenantCountBlur
    \/ \E rowId \in RowIds, newUsage \in UsageValues :
            handleRowUsageChange(rowId, newUsage)
    \/ \E rowId \in RowIds, value \in DepositValues :
            handleRowDepositChange(rowId, value)
    \/ \E rowId \in RowIds, value \in RentValues :
            handleRowRentChange(rowId, value)
    \/ \E rowId \in RowIds, value \in BRValues :
            handleRowBusinessRegistrationChange(rowId, value)

Spec == Init /\ [][Next]_vars

----------------------------------------------------------------------------
(* Two handlers called in one event turn: both are the closures of the same
   render, so both read its status and info, and React applies their
   updaters in order to the pending state *)

CalledTwice == /\ steps + 2 <= MaxSteps
               /\ steps' = steps + 2
               /\ UNCHANGED <<type, deriveVars>>

\* handleRowDepositChange(rowId, value); handleTenantCountChange(raw)
DepositThenTenantCount(rowId, value, raw) ==
    /\ CalledTwice
    /\ lastCount' = [op |-> "tenant", value |-> raw]
    /\ SetInfo(TenantCountChangeInfo(info, status,
                    RowDepositChangeInfo(status, info, rowId, value), raw))

\* handleStatusChange(newStatus); handleTotalCountChange(raw)
StatusThenTotalCount(newStatus, raw) ==
    /\ CalledTwice
    /\ ~StatusChangeThrows(info, newStatus)
    /\ lastCount' = [op |-> "total", value |-> raw]
    /\ status' = newStatus
    /\ info' = TotalCountChangeInfo(info, status,
                    StatusChangeInfo(info, info, newStatus), raw)
    /\ threw' = FALSE
    /\ trip' = NoTrip

NextBatch ==
    \/ Next
    \/ \E rowId \in RowIds, value \in DepositValues, raw \in CountValues :
            DepositThenTenantCount(rowId, value, raw)
    \/ \E newStatus \in OccupancyStatus, raw \in CountValues :
            StatusThenTotalCount(newStatus, raw)

SpecBatch == Init /\ [][NextBatch]_vars

----------------------------------------------------------------------------
(* Direct calls of autoSetUsageStatus on arbitrary arguments *)

ExistingRowValues ==
    {Row(<<"9">>, u, d, r) :
        u \in {USAGE_RENTED, USAGE_VACANT}, d \in {<<>>, <<"5">>}, r \in {<<>>, <<"7">>}}
    \cup {RowBR(<<"9">>, u, d, r, <<"Y">>) :
        u \in {USAGE_RENTED, USAGE_VACANT}, d \in {<<>>, <<"5">>}, r \in {<<>>, <<"7">>}}

ExistingRowSeqs ==
    UNION {[1..n -> ExistingRowValues] : n \in 0..MaxExisting}

InitDerive ==
    /\ type = "residential"
    /\ status = "residence"
    /\ info = createInitialInfoState("residential")
    /\ threw = FALSE
    /\ trip = NoTrip
    /\ steps = 0
    /\ lastCount = NoLast
    /\ dIn \in [totalCount : 0..MaxCount, tenantCount : 0..MaxCount,
                existingRows : ExistingRowSeqs, status : OccupancyStatus,
                isCommercial : BOOLEAN]
    /\ dOut = <<>>
    /\ dLow = -1
    /\ dpc = "ready"

DeriveCall ==
    /\ dpc = "ready"
    /\ dOut' = autoSetUsageStatus(dIn.totalCount, dIn.tenantCount,
                                  dIn.existingRows, dIn.status, dIn.isCommercial)
    /\ dpc' = "done"
    /\ UNCHANGED <<dIn, dLow, hookVars>>

\* two further regenerations on the rows just derived, as two calls of
\* handleTenantCountChange make them: the tenant count lowered to low, then
\* raised back to dIn.tenantCount
DeriveLowerRaise(low) ==
    /\ dpc = "done"
    /\ low < dIn.tenantCount
    /\ LET lowered == autoSetUsageStatus(dIn.totalCount, low, dOut,
                                         dIn.status, dIn.isCommercial)
       IN  dOut' = autoSetUsageStatus(dIn.totalCount, dIn.tenantCount, lowered,
                                      dIn.status, dIn.isCommercial)
    /\ dLow' = low
    /\ dpc' = "reraised"
    /\ UNCHANGED <<dIn, hookVars>>

\* the same call again on the rows just derived, as a second
\* handleStatusChange to the same status makes it
DeriveAgain ==
    /\ dpc = "done"
    /\ dOut' = autoSetUsageStatus(dIn.totalCount, dIn.tenantCount, dOut,
                                  dIn.status, dIn.isCommercial)
    /\ dpc' = "again"
    /\ UNCHANGED <<dIn, dLow, hookVars>>

NextDerive ==
    \/ DeriveCall
    \/ \E low \in 0..MaxCount : DeriveLowerRaise(low)
    \/ DeriveAgain

SpecDerive == InitDerive /\ [][NextDerive]_vars

----------------------------------------------------------------------------
(* Claims about autoSetUsageStatus, checked under SpecDerive *)

Called1 == dpc = "done"
RentCountOf(d, f) == IF d - 1 >= f THEN d - 1 ELSE f
RowCountOf(d, f) == IF d >= f /\ d >= 1 THEN d ELSE IF f >= 1 THEN f ELSE 1
OwnerLabel(c) == IF c THEN USAGE_DIRECT ELSE USAGE_OWNER
PlainFields == {"id", "usage", "deposit", "rent"}
BRFields == PlainFields \cup {"businessRegistration"}

\* C5: for status both the result has max(desiredCount - 1, filledCount) + 1
\* rows; the last one is the only owner row, with empty deposit and rent (and
\* an empty businessRegistration when commercial) and id rentRowCount + 1;
\* the row at index i before it is rented if i < filledCount, else vacant.
C5_BothShape ==
    (Called1 /\ dIn.status = "both") =>
        LET n == RentCountOf(dIn.totalCount, dIn.tenantCount)
            last == dOut[n + 1]
        IN  /\ Len(dOut) = n + 1
            /\ last.usage = OwnerLabel(dIn.isCommercial)
            /\ last.deposit = <<>> /\ last.rent = <<>>
            /\ dIn.isCommercial => (HasBR(last) /\ last.businessRegistration = <<>>)
            /\ NumberOr0(last.id) = n + 1
            /\ \A i \in 0..(n - 1) :
                    dOut[i + 1].usage =
                        IF i < dIn.tenantCount THEN USAGE_RENTED ELSE USAGE_VACANT
            /\ Cardinality({k \in 1..Len(dOut) :
                    dOut[k].usage = OwnerLabel(dIn.isCommercial)}) = 1

C5_Witness ==
    /\ Called1 /\ dIn.status = "both"
    /\ dIn.totalCount = 0 /\ dIn.tenantCount = 2
    /\ Len(dIn.existingRows) = 2
    /\ Len(dOut) = 3

\* C6: for status rent the result has max(desiredCount, filledCount, 1) rows
\* and the row at index i is rented if i < filledCount, else vacant.
C6_RentShape ==
    (Called1 /\ dIn.status = "rent") =>
        /\ Len(dOut) = RowCountOf(dIn.totalCount, dIn.tenantCount)
        /\ \A i \in 0..(Len(dOut) - 1) :
                dOut[i + 1].usage =
                    IF i < dIn.tenantCount THEN USAGE_RENTED ELSE USAGE_VACANT
        /\ Cardinality({k \in 1..Len(dOut) : dOut[k].usage = USAGE_RENTED})
                = dIn.tenantCount

C6_Witness ==
    /\ Called1 /\ dIn.status = "rent"
    /\ dIn.totalCount = 2 /\ dIn.tenantCount = 1
    /\ dOut[1].usage = USAGE_RENTED /\ dOut[2].usage = USAGE_VACANT

\* the rows of the result the carry-over rule is about: all of them for rent,
\* all but the last for both
RentBlock == IF dIn.status = "both" THEN Len(dOut) - 1 ELSE Len(dOut)

\* C7: in the rows of status rent and in the rent block of both, a rented row
\* at index i has the deposit and rent of existingRows[i] when there is one
\* and "" otherwise, and a vacant row has both empty; so after lowering the
\* tenant count and raising it again, the rows that were vacant in between
\* are rented with empty deposit and rent.
C7_CarryOver ==
    /\ (Called1 /\ dIn.status \in {"rent", "both"}) =>
          \A i \in 0..(RentBlock - 1) :
            LET r == dOut[i + 1]
                has == i < Len(dIn.existingRows)
            IN  /\ r.usage = USAGE_RENTED =>
                    /\ r.deposit = (IF has THEN dIn.existingRows[i + 1].deposit ELSE <<>>)
                    /\ r.rent = (IF has THEN dIn.existingRows[i + 1].rent ELSE <<>>)
                /\ r.usage = USAGE_VACANT => (r.deposit = <<>> /\ r.rent = <<>>)
                /\ r.usage \in {USAGE_RENTED, USAGE_VACANT}
    /\ (dpc = "reraised" /\ dIn.status \in {"rent", "both"}) =>
          \A i \in dLow..(dIn.tenantCount - 1) :
            /\ dOut[i + 1].usage = USAGE_RENTED
            /\ dOut[i + 1].deposit = <<>>
            /\ dOut[i + 1].rent = <<>>

C7_Witness ==
    /\ dpc = "reraised" /\ dIn.status = "rent"
    /\ dLow = 1 /\ dIn.tenantCount = 2
    /\ Len(dIn.existingRows) = 2
    /\ dIn.existingRows[1].deposit = <<"5">> /\ dIn.existingRows[2].deposit = <<"5">>
    /\ dIn.existingRows[2].rent = <<"7">>
    /\ dOut[1].deposit = <<"5">>
    /\ dOut[2].deposit = <<>>

\* C8: for status residence or self-use the result has
\* max(desiredCount, filledCount, 1) rows, each labeled by the category, with
\* empty deposit and rent, an empty businessRegistration exactly when
\* commercial, a positional id, and so nothing of existingRows.
C8_ResidenceShape ==
    (Called1 /\ dIn.status \in {"residence", "self-use"}) =>
        /\ Len(dOut) = RowCountOf(dIn.totalCount, dIn.tenantCount)
        /\ \A k \in 1..Len(dOut) :
            /\ dOut[k].usage = (IF dIn.isCommercial THEN USAGE_DIRECT ELSE USAGE_RESIDING)
            /\ dOut[k].deposit = <<>> /\ dOut[k].rent = <<>>
            /\ NumberOr0(dOut[k].id) = k
            /\ DOMAIN dOut[k] = (IF dIn.isCommercial THEN BRFields ELSE PlainFields)
            /\ dIn.isCommercial => dOut[k].businessRegistration = <<>>

C8_Witness ==
    /\ Called1 /\ dIn.status = "self-use" /\ dIn.isCommercial
    /\ dIn.totalCount = 1 /\ dIn.tenantCount = 2
    /\ Len(dIn.existingRows) = 2
    /\ HasBR(dIn.existingRows[1]) /\ dIn.existingRows[1].deposit = <<"5">>
    /\ Len(dOut) = 2

\* C9: the rows of status both before the owner row are field for field the
\* rows the rent rule gives for the same filledCount and existingRows.
C9_BothBlockIsRent ==
    (Called1 /\ dIn.status = "both") =>
        LET n == Len(dOut) - 1
            rentRows == autoSetUsageStatus(n, dIn.tenantCount, dIn.existingRows,
                                           "rent", dIn.isCommercial)
        IN  \A k \in 1..n : dOut[k] = rentRows[k]

----------------------------------------------------------------------------
(* Claims about the hook, checked under Spec *)

\* C1: after a switch from status A to another status and straight back to A,
\* the SectionInfo of A is what it was before the switch.
C1_RoundTripKeepsData ==
    trip.phase = 2 => info[trip.from] = trip.saved

\* C2: a handler changes no entry of the InfoRecord but the one of the status
\* that is active after it (the active status for a mutator, newStatus for
\* handleStatusChange), and it adds or removes no entry.
C2_Frame ==
    [][/\ DOMAIN info' = DOMAIN info
       /\ \A k \in DOMAIN info : k # status' => info'[k] = info[k]]_vars

C2_Witness ==
    /\ steps >= 3
    /\ type = "commercial" /\ status = "both"
    /\ info["both"].tenantCount = <<"2">>
    /\ info["rent"].totalCount = <<"0", "2">>
    /\ info["rent"].leaseRows[2].deposit = <<"5">>
    /\ info["self-use"] = createInitialInfoState(type)["self-use"]

\* C3: no call of a handler ends in an error.
C3_NeverThrows == threw = FALSE

\* C4: every row of every entry whose usage is not rented has an empty
\* deposit and an empty rent.
C4_FinancialFieldsEmpty ==
    \A k \in DOMAIN info : \A i \in 1..Len(info[k].leaseRows) :
        LET r == info[k].leaseRows[i]
        IN  r.usage # USAGE_RENTED => (r.deposit = <<>> /\ r.rent = <<>>)

\* C10: handleStatusChange(newStatus), for a status with an entry, makes
\* newStatus active and stores under it the rows derived from its own
\* totalCount (at least 1), its own tenantCount and its previous rows, and
\* leaves its totalCount and tenantCount as they were.
C10_StatusChange ==
    [][\A s \in DOMAIN info : handleStatusChange(s) =>
        LET old == info[s]
            T == IF NumberOr0(old.totalCount) >= 1 THEN NumberOr0(old.totalCount) ELSE 1
            N == NumberOr0(old.tenantCount)
        IN  /\ status' = s
            /\ info'[s].leaseRows =
                    autoSetUsageStatus(T, N, old.leaseRows, s, type = "commercial")
            /\ info'[s].totalCount = old.totalCount
            /\ info'[s].tenantCount = old.tenantCount]_vars

C10_Witness ==
    /\ steps >= 3
    /\ trip.phase = 1 /\ trip.from = "rent" /\ status = "both"
    /\ trip.saved.totalCount = <<"2">> /\ trip.saved.tenantCount = <<"0">>
    /\ info["both"].totalCount = <<"1">>
    /\ info["both"].tenantCount = <<"2">>
    /\ Len(info["both"].leaseRows) = 3
    /\ Len(info["rent"].leaseRows) = 2

\* C11: handleRowUsageChange(rowId, newUsage) gives the rows of the active
\* status with that id the usage newUsage, empties their deposit and rent
\* unless newUsage is rented, and changes nothing else: the other rows, the
\* length and order of the list, totalCount, tenantCount, the other fields of
\* the row and the active status stay as they were.
C11_RowUsageChange ==
    [][\A rowId \in RowIds, newUsage \in UsageValues :
        handleRowUsageChange(rowId, newUsage) =>
            LET old == info[status].leaseRows
                new == info'[status].leaseRows
            IN  /\ status' = status
                /\ info'[status].totalCount = info[status].totalCount
                /\ info'[status].tenantCount = info[status].tenantCount
                /\ Len(new) = Len(old)
                /\ \A i \in 1..Len(old) :
                    IF old[i].id = rowId
                    THEN /\ new[i].usage = newUsage
                         /\ new[i].id = old[i].id
                         /\ DOMAIN new[i] = DOMAIN old[i]
                         /\ HasBR(old[i]) =>
                                new[i].businessRegistration = old[i].businessRegistration
                         /\ new[i].deposit =
                                (IF newUsage = "rented" THEN old[i].deposit ELSE <<>>)
                         /\ new[i].rent =
                                (IF newUsage = "rented" THEN old[i].rent ELSE <<>>)
                    ELSE new[i] = old[i]]_vars

C11_Witness ==
    /\ status = "rent"
    /\ info["rent"].tenantCount = <<"2">>
    /\ Len(info["rent"].leaseRows) = 2
    /\ info["rent"].leaseRows[1].usage = "vacant"
    /\ info["rent"].leaseRows[1].deposit = <<>>
    /\ info["rent"].leaseRows[2].usage = "rented"
    /\ info["rent"].leaseRows[2].deposit = <<"5">>

\* C12: handleRowBusinessRegistrationChange(rowId, value) sets the field only
\* on rows that already carry it; a row without the field is left as it is,
\* so in a residential section the call leaves the whole InfoRecord unchanged.
C12_BRNoOpWhenAbsent ==
    [][\A rowId \in RowIds, value \in BRValues :
        handleRowBusinessRegistrationChange(rowId, value) =>
            LET old == info[status].leaseRows
                new == info'[status].leaseRows
            IN  /\ Len(new) = Len(old)
                /\ \A i \in 1..Len(old) :
                    IF old[i].id = rowId /\ HasBR(old[i])
                    THEN new[i] = [old[i] EXCEPT !.businessRegistration = value]
                    ELSE new[i] = old[i]
                /\ type = "residential" => info' = info]_vars

\* C13: handleTotalCountBlur right after handleTotalCountChange(raw) leaves
\* as totalCount of the active status the digits of raw when they denote at
\* least 1 and "1" otherwise; the blur changes neither leaseRows nor
\* tenantCount, and the rows are those the derivation gives for the
\* committed total count.
C13_TotalChangeThenCommit ==
    [][/\ handleTotalCountBlur =>
            /\ info'[status].leaseRows = info[status].leaseRows
            /\ info'[status].tenantCount = info[status].tenantCount
            /\ status' = status
       /\ (lastCount.op = "total" /\ lastCount'.op = "totalCommitted") =>
            LET digits == SelectSeq(lastCount.value, IsDigit)
                after == info'[status]
            IN  /\ after.totalCount =
                        (IF NumberOr0(digits) >= 1 THEN digits ELSE <<"1">>)
                /\ after.leaseRows =
                        autoSetUsageStatus(NumberOr0(after.totalCount),
                                           NumberOr0(after.tenantCount),
                                           after.leaseRows, status,
                                           type = "commercial")]_vars

C13_Witness ==
    /\ lastCount.op = "totalCommitted"
    /\ lastCount.value = <<"x", "0", "x">>
    /\ status = "both"
    /\ info["both"].totalCount = <<"1">>
    /\ info["both"].tenantCount = <<"2">>

\* C15: handleTenantCountBlur right after handleTenantCountChange(raw) leaves
\* as tenantCount of the active status the digits of raw, or "0" when raw has
\* no digit; handleTenantCountChange derived the rows with a tenant count of 0
\* in that case; the blur changes neither leaseRows nor totalCount.
C15_TenantChangeThenCommit ==
    [][/\ handleTenantCountBlur =>
            /\ info'[status].leaseRows = info[status].leaseRows
            /\ info'[status].totalCount = info[status].totalCount
            /\ status' = status
       /\ (lastCount.op = "tenant" /\ lastCount'.op = "tenantCommitted") =>
            LET digits == SelectSeq(lastCount.value, IsDigit)
            IN  info'[status].tenantCount = (IF digits = <<>> THEN <<"0">> ELSE digits)
       /\ \A raw \in CountValues :
            (handleTenantCountChange(raw) /\ SelectSeq(raw, IsDigit) = <<>>) =>
                info'[status].leaseRows =
                    autoSetUsageStatus(NumberOr0(info[status].totalCount), 0,
                                       info[status].leaseRows, status,
                                       type = "commercial")]_vars

C15_Witness ==
    /\ lastCount.op = "tenantCommitted"
    /\ lastCount.value = <<"x">>
    /\ status = "rent"
    /\ info["rent"].tenantCount = <<"0">>
    /\ info["rent"].totalCount = <<"2">>
    /\ info["rent"].leaseRows[1].usage = "vacant"

AllDigits(str) == \A i \in 1..Len(str) : str[i] \in Digits
BelowOne(str) == str = <<>> \/ NumberOr0(str) < 1

\* C14 as claimed: every stored totalCount is a digit string that denotes at
\* least 1.
C14_TotalCountAtLeastOne ==
    \A k \in DOMAIN info :
        /\ AllDigits(info[k].totalCount)
        /\ ~BelowOne(info[k].totalCount)

\* C14 as amended: every stored totalCount is a string of digits; it is empty
\* or denotes 0 only from a handleTotalCountChange that stored such a value
\* until the next handleTotalCountBlur on that status, after which the
\* totalCount of the active status denotes at least 1.
C14_TotalCountAtLeastOneOnceCommitted ==
    [][/\ \A k \in DOMAIN info' :
            /\ AllDigits(info'[k].totalCount)
            /\ (BelowOne(info'[k].totalCount) /\ ~BelowOne(info[k].totalCount)) =>
                    /\ k = status
                    /\ \E raw \in CountValues :
                        /\ handleTotalCountChange(raw)
                        /\ info'[k].totalCount = SelectSeq(raw, IsDigit)
       /\ handleTotalCountBlur => ~BelowOne(info'[status].totalCount)]_vars

C14_Witness ==
    /\ type = "residential"
    /\ lastCount = [op |-> "totalCommitted", value |-> <<"0">>]
    /\ status = "rent"
    /\ info["rent"].totalCount = <<"1">>
    /\ info["residence"].totalCount = <<>>

\* C16: the InfoRecord has an entry for exactly the three statuses of the
\* section type (residential: residence, rent, both; commercial: self-use,
\* rent, both) and the active status is one of them.
C16_RecordShape ==
    /\ type \in {"residential", "commercial"}
    /\ type = "residential" => DOMAIN info = {"residence", "rent", "both"}
    /\ type = "commercial" => DOMAIN info = {"self-use", "rent", "both"}
    /\ status \in DOMAIN info

C16_Witness ==
    /\ steps >= 3
    /\ threw
    /\ type = "commercial" /\ status = "both"
    /\ Len(info["both"].leaseRows) = 3

PositionalIds(rec) ==
    \A k \in DOMAIN rec :
        LET rows == rec[k].leaseRows
        IN  /\ \A i \in 1..Len(rows) :
                /\ rows[i].id # <<>>
                /\ rows[i].id[1] # "0"
                /\ AllDigits(rows[i].id)
                /\ NumberOr0(rows[i].id) = i
            /\ \A i, j \in 1..Len(rows) : rows[i].id = rows[j].id => i = j

\* a call of one of the four row handlers with the id rowId
RowHandlerCalled(rowId) ==
    \/ \E newUsage \in UsageValues : handleRowUsageChange(rowId, newUsage)
    \/ \E value \in DepositValues : handleRowDepositChange(rowId, value)
    \/ \E value \in RentValues : handleRowRentChange(rowId, value)
    \/ \E value \in BRValues : handleRowBusinessRegistrationChange(rowId, value)

\* C18: in every entry the ids of the rows are "1", "2", ..., "N" in list
\* order, so they are pairwise distinct.
C18_PositionalIds == PositionalIds(info)

\* what C18 concludes from it: a row handler changes at most one row, and
\* none when no row has the id it is given
C18_AtMostOneRow ==
    [][\A rowId \in RowIds : RowHandlerCalled(rowId) =>
            LET old == info[status].leaseRows
                new == info'[status].leaseRows
            IN  /\ Len(new) = Len(old)
                /\ Cardinality({i \in 1..Len(old) : new[i] # old[i]}) <= 1
                /\ NumberOr0(rowId) > Len(old) => info' = info]_vars

C18_Witness ==
    /\ status = "both"
    /\ Len(info["both"].leaseRows) = 3
    /\ info["both"].leaseRows[3].id = <<"3">>
    /\ info["both"].leaseRows[2].deposit = <<"5">>
    /\ info["both"].leaseRows[1].deposit = <<>>
    /\ info["both"].leaseRows[3].deposit = <<>>
    /\ info["rent"].leaseRows[1].id = <<"1">>

\* the count a stored string stands for: its value, 0 when empty
Stored(str) == IF str = <<>> THEN 0 ELSE NumberOr0(str)

\* C19: in every entry, with T the stored totalCount floored at 1 and N the
\* stored tenantCount (empty as 0), the number of rows is max(T, N, 1) for
\* residence, self-use and rent and max(T - 1, N) + 1 for both.
C19_RowCountAgrees ==
    \A k \in DOMAIN info :
        LET T == IF Stored(info[k].totalCount) >= 1 THEN Stored(info[k].totalCount) ELSE 1
            N == Stored(info[k].tenantCount)
            n == Len(info[k].leaseRows)
        IN  IF k = "both"
            THEN n = (IF T - 1 >= N THEN T - 1 ELSE N) + 1
            ELSE n = (IF T >= N THEN T ELSE N)

C19_Witness ==
    /\ status = "rent"
    /\ info["both"].totalCount = <<>>
    /\ info["both"].tenantCount = <<"2">>
    /\ Len(info["both"].leaseRows) = 3
    /\ info["rent"].totalCount = <<"0">>
    /\ Len(info["rent"].leaseRows) = 1

\* C20: deriving again with the same counts, status and category from the
\* rows just derived gives those rows back.
C20_DeriveIdempotent ==
    [][dpc' = "again" => dOut' = dOut]_vars

C20_Witness ==
    /\ dpc = "again"
    /\ dIn.status = "both" /\ dIn.isCommercial
    /\ dIn.totalCount = 1 /\ dIn.tenantCount = 2
    /\ Len(dIn.existingRows) = 2
    /\ HasBR(dIn.existingRows[1]) /\ ~HasBR(dIn.existingRows[2])
    /\ dIn.existingRows[1].deposit = <<"5">> /\ dIn.existingRows[2].deposit = <<>>
    /\ dOut[1].deposit = <<"5">>
    /\ dOut[1].businessRegistration = <<"Y">>
    /\ Len(dOut) = 3

\* C20 in the hook: a second handleStatusChange(s) right after the first
\* would store the InfoRecord the first one left
C20_StatusChangeTwice ==
    [][\A s \in DOMAIN info : handleStatusChange(s) =>
            StatusChangeInfo(info', info', s) = info']_vars

----------------------------------------------------------------------------
(* Claim about two calls in one event turn, checked under SpecBatch *)

\* C17: two handlers called one right after the other leave the InfoRecord
\* and the active status that the first handler followed by the second, each
\* on the state the one before produced, would leave.
C17_BatchIsSequential ==
    [][/\ \A rowId \in RowIds, value \in DepositValues, raw \in CountValues :
            DepositThenTenantCount(rowId, value, raw) =>
                LET first == RowDepositChangeInfo(status, info, rowId, value)
                IN  /\ status' = status
                    /\ info' = TenantCountChangeInfo(first, status, first, raw)
       /\ \A newStatus \in DOMAIN info, raw \in CountValues :
            StatusThenTotalCount(newStatus, raw) =>
                LET first == StatusChangeInfo(info, info, newStatus)
                IN  /\ status' = newStatus
                    /\ info' = TotalCountChangeInfo(first, newStatus, first, raw)]_vars

====
